---- MODULE Spec2Model ----
(***************************************************************************)
(* Model of lib/wifi/portable/ti/cc3220_launchpad/aws_wifi.c: the Wi-Fi    *)
(* abstraction layer of Amazon FreeRTOS on the TI CC3220SF launchpad.      *)
(*                                                                         *)
(* Tasks call the public WIFI_* operations concurrently.  A task's pc is   *)
(* "idle" between operations, the name of the vendor SDK function while it *)
(* is inside that SDK call, and the name of the FreeRTOS primitive it is   *)
(* about to execute otherwise ("return" before the return statement of    *)
(* WIFI_On).  The step that leaves an SDK pc is the return of that call,   *)
(* with the result the SDK chose.                                          *)
(***************************************************************************)
EXTENDS Integers, FiniteSets, Sequences, TLC

(* ---------------- bounds of the model ---------------- *)
\* executions of xSemaphoreCreateBinaryStatic that are followed
MaxCreate == 2
\* translations applied in a row by the translation harness
MaxConv == 2

\* two tasks: a holder of the semaphore and another caller
Tasks == {"task1", "task2"}

(* ---------------- program constants ---------------- *)
\* WIFIReturnCode_t (aws_wifi.h); line 425 relies on eWiFiSuccess being 0.
eWiFiSuccess == 0
eWiFiFailure == 1
eWiFiTimeout == 2
eWiFiNotSupported == 3

\* WIFISecurity_t (aws_wifi.h)
eWiFiSecurityOpen == 0
eWiFiSecurityWEP == 1
eWiFiSecurityWPA == 2
eWiFiSecurityWPA2 == 3
eWiFiSecurityNotSupported == 4

\* SimpleLink security types (wlan.h).  SL_WLAN_SEC_TYPE_WPA is the
\* deprecated alias of SL_WLAN_SEC_TYPE_WPA_WPA2: both are 2, which is why
\* the WPA case of prvConvertSecurityTIToAbstracted is commented out.
SL_WLAN_SEC_TYPE_OPEN == 0
SL_WLAN_SEC_TYPE_WEP == 1
SL_WLAN_SEC_TYPE_WPA == 2
SL_WLAN_SEC_TYPE_WPA_WPA2 == 2
wificonfigSEC_TYPE_UNKNOWN == 255

\* WIFIDeviceMode_t (aws_wifi.h)
eWiFiModeStation == 0
eWiFiModeAP == 1
eWiFiModeP2P == 2
eWiFiModeNotSupported == 3

\* SlWlanMode_e (wlan.h)
ROLE_STA == 0
ROLE_RESERVED == 1
ROLE_AP == 2
ROLE_P2P == 3

\* WIFIPMMode_t (aws_wifi.h)
eWiFiPMNormal == 0
eWiFiPMLowPower == 1
eWiFiPMAlwaysOn == 2

wificonfigMAX_SSID_LEN == 32
wificonfigMAX_PASSPHRASE_LEN == 32

pdFALSE == 0
pdTRUE == 1

\* #define wifiGENERAL_INTERNAL_ERROR -1
wifiGENERAL_INTERNAL_ERROR == 0 - 1

(* ---------------- input sets ---------------- *)
\* uint8_t values a caller or the SDK can hand to the security translation
Uint8 == 0..255
\* abstracted security types a caller passes to an operation
SecInputs == {eWiFiSecurityOpen, eWiFiSecurityWPA2, eWiFiSecurityNotSupported}
\* abstracted device modes a caller passes
ModeInputs == 0..3
\* vendor role values the SDK reports (ROLE_TAG = 4 included)
RoleValues == 0..4
PMInputs == 0..3
SSIDLenInputs == {wificonfigMAX_SSID_LEN, wificonfigMAX_SSID_LEN + 1}
PassLenInputs == {wificonfigMAX_PASSPHRASE_LEN, wificonfigMAX_PASSPHRASE_LEN + 1}

(* ---------------- pure translations ---------------- *)
prvConvertSecurityAbstractedToTI(xSecurity) ==
    CASE xSecurity = eWiFiSecurityOpen -> SL_WLAN_SEC_TYPE_OPEN
      [] xSecurity = eWiFiSecurityWEP -> SL_WLAN_SEC_TYPE_WEP
      [] xSecurity = eWiFiSecurityWPA -> SL_WLAN_SEC_TYPE_WPA
      [] xSecurity = eWiFiSecurityWPA2 -> SL_WLAN_SEC_TYPE_WPA_WPA2
      [] OTHER -> wificonfigSEC_TYPE_UNKNOWN

\* faulty variant: the WPA case restored in place of the WPA2 case
prvConvertSecurityTIToAbstracted_WPACase(ucSecurity) ==
    CASE ucSecurity = SL_WLAN_SEC_TYPE_OPEN -> eWiFiSecurityOpen
      [] ucSecurity = SL_WLAN_SEC_TYPE_WEP -> eWiFiSecurityWEP
      [] ucSecurity = SL_WLAN_SEC_TYPE_WPA -> eWiFiSecurityWPA
      [] OTHER -> eWiFiSecurityNotSupported

prvConvertSecurityTIToAbstracted(ucSecurity) ==
    CASE ucSecurity = SL_WLAN_SEC_TYPE_OPEN -> eWiFiSecurityOpen
      [] ucSecurity = SL_WLAN_SEC_TYPE_WEP -> eWiFiSecurityWEP
      [] ucSecurity = SL_WLAN_SEC_TYPE_WPA_WPA2 -> eWiFiSecurityWPA2
      [] OTHER -> eWiFiSecurityNotSupported

prvConvertRoleAbstractedToTI(xDeviceMode) ==
    CASE xDeviceMode = eWiFiModeStation -> ROLE_STA
      [] xDeviceMode = eWiFiModeAP -> ROLE_AP
      [] xDeviceMode = eWiFiModeP2P -> ROLE_P2P
      [] OTHER -> ROLE_RESERVED

\* faulty variant: the cases of ROLE_AP and ROLE_P2P exchanged
prvConvertRoleTypeTIToAbstracted_Swapped(xDeviceMode) ==
    CASE xDeviceMode = ROLE_STA -> eWiFiModeStation
      [] xDeviceMode = ROLE_AP -> eWiFiModeP2P
      [] xDeviceMode = ROLE_P2P -> eWiFiModeAP
      [] OTHER -> eWiFiModeNotSupported

prvConvertRoleTypeTIToAbstracted(xDeviceMode) ==
    CASE xDeviceMode = ROLE_STA -> eWiFiModeStation
      [] xDeviceMode = ROLE_AP -> eWiFiModeAP
      [] xDeviceMode = ROLE_P2P -> eWiFiModeP2P
      [] OTHER -> eWiFiModeNotSupported

(* ---------------- state ---------------- *)
VARIABLES
    xWIFIInitDone,        \* static BaseType_t xWIFIInitDone
    xWiFiSemaphoreHandle, \* "NULL" or "xSemaphoreBuffer"
    uxMessagesWaiting,    \* count of the binary semaphore: 1 = available
    g_ulStatus,           \* TRUE iff the IP-acquired bit of g_ulStatus is set
    nCreate,              \* executions of xSemaphoreCreateBinaryStatic so far
    slTaskCreated,        \* prvCreateSLTask has succeeded at least once
    pc,                   \* per task: position
    op,                   \* per task: the public operation it is in / was last in
    arg,                  \* per task: the arguments of that operation
    xRetVal,              \* per task: xRetVal of that operation
    sdkCalls,             \* per task: vendor SDK calls made by that invocation
    took,                 \* per task: its xSemaphoreTake succeeded
    gives,                \* per task: xSemaphoreGive calls of its guarded section
    wrote,                \* per task: it wrote an output parameter
    lRetVal,              \* per task: lRetVal / sRetCode of WIFI_ConnectAP and
                          \* WIFI_ConfigureAP, and the value Network_IF_InitDriver
                          \* returned to WIFI_On; 0 outside these operations
    cvVals,               \* translation harness: input followed by results
    cvFns                 \* translation harness: translations applied

globals == <<xWIFIInitDone, xWiFiSemaphoreHandle, uxMessagesWaiting, g_ulStatus,
             nCreate, slTaskCreated>>
locals == <<pc, op, arg, xRetVal, sdkCalls, took, gives, wrote, lRetVal>>
cv == <<cvVals, cvFns>>
vars == <<globals, locals, cv>>

\* pcs at which the task is inside a SimpleLink / network-interface call
SlPcs == {"sl_Start", "sl_Stop", "sl_WlanSetMode", "sl_WlanGet",
          "sl_WlanProfileAdd", "sl_WlanProfileGet", "sl_WlanProfileDel",
          "sl_NetCfgGet", "sl_WlanPolicySet_Scan", "sl_WlanPolicySet_Disable",
          "sl_WlanGetNetworkList", "sl_WlanSet_SSID", "sl_WlanSet_CHANNEL",
          "sl_WlanSet_SECURITY_TYPE", "sl_WlanSet_PASSWORD",
          "sl_WlanPolicySet_PM", "sl_WlanPolicyGet"}
NetworkIfPcs == {"Network_IF_ResetMCUStateMachine", "Network_IF_InitDriver",
                 "Network_IF_DeInitDriver", "Network_IF_DisconnectFromAP",
                 "Network_IF_ConnectAP", "Network_IF_IpConfigGet",
                 "Network_IF_CurrentMCUState"}
SdkPcs == SlPcs \cup NetworkIfPcs \cup {"SOCKETS_GetHostByName"}

GuardedOps == {"WIFI_ConnectAP", "WIFI_Disconnect", "WIFI_Reset", "WIFI_SetMode",
               "WIFI_GetMode", "WIFI_NetworkAdd", "WIFI_NetworkGet",
               "WIFI_NetworkDelete", "WIFI_Scan", "WIFI_ConfigureAP",
               "WIFI_SetPMMode", "WIFI_GetPMMode"}

NoArg == [mode |-> 0, sec |-> 0, ssidLen |-> 0, passLen |-> 0, pm |-> 0]

\* result sets of the vendor SDK calls
Int16Results == {-1, 0, 1}          \* negative error, zero, positive
SlStartResults == {-1, ROLE_STA, ROLE_AP, ROLE_P2P}

Init ==
    /\ xWIFIInitDone = FALSE
    /\ xWiFiSemaphoreHandle = "NULL"
    /\ uxMessagesWaiting = 0
    /\ g_ulStatus = FALSE
    /\ nCreate = 0
    /\ slTaskCreated = FALSE
    /\ pc = [t \in Tasks |-> "idle"]
    /\ op = [t \in Tasks |-> "none"]
    /\ arg = [t \in Tasks |-> NoArg]
    /\ xRetVal = [t \in Tasks |-> eWiFiSuccess]
    /\ sdkCalls = [t \in Tasks |-> 0]
    /\ took = [t \in Tasks |-> FALSE]
    /\ gives = [t \in Tasks |-> 0]
    /\ wrote = [t \in Tasks |-> FALSE]
    /\ lRetVal = [t \in Tasks |-> 0]
    /\ cvVals = <<0>>
    /\ cvFns = <<>>

(* ---------------- step helpers ---------------- *)
\* task t enters public operation o with arguments a; l is the first
\* position after the entry code and rv the value xRetVal has there (l is
\* "idle" when the operation returns without a further step)
Call(t, o, a, l, rv) ==
    /\ pc[t] = "idle"
    /\ pc' = [pc EXCEPT ![t] = l]
    /\ op' = [op EXCEPT ![t] = o]
    /\ arg' = [arg EXCEPT ![t] = a]
    /\ xRetVal' = [xRetVal EXCEPT ![t] = rv]
    /\ sdkCalls' = [sdkCalls EXCEPT ![t] = IF l \in SdkPcs THEN 1 ELSE 0]
    /\ took' = [took EXCEPT ![t] = FALSE]
    /\ gives' = [gives EXCEPT ![t] = 0]
    /\ wrote' = [wrote EXCEPT ![t] = FALSE]
    /\ UNCHANGED <<globals, cv, lRetVal>>

\* task t moves to position l (entering an SDK call if l is one) with
\* xRetVal = rv and lRetVal = r; w tells whether this step writes an output
\* parameter.  l = "idle" is the return of the operation: the result of the
\* invocation (xRetVal, sdkCalls, took, gives, wrote) stays visible until the
\* task's next call; the operation, its arguments and its local lRetVal do not
GotoR(t, l, rv, w, r) ==
    /\ pc' = [pc EXCEPT ![t] = l]
    /\ sdkCalls' = [sdkCalls EXCEPT ![t] = IF l \in SdkPcs THEN @ + 1 ELSE @]
    /\ xRetVal' = [xRetVal EXCEPT ![t] = rv]
    /\ wrote' = [wrote EXCEPT ![t] = (@ \/ w)]
    /\ op' = [op EXCEPT ![t] = IF l = "idle" THEN "none" ELSE @]
    /\ arg' = [arg EXCEPT ![t] = IF l = "idle" THEN NoArg ELSE @]
    /\ lRetVal' = [lRetVal EXCEPT ![t] = IF l = "idle" THEN 0 ELSE r]
    /\ UNCHANGED cv

\* the same step when it does not assign lRetVal
Goto(t, l, rv, w) == GotoR(t, l, rv, w, lRetVal[t])

\* a step of task t, at position l0 of operation o, that touches nothing
\* shared and assigns r to lRetVal
LocalR(t, o, l0, l, rv, w, r) ==
    /\ pc[t] = l0
    /\ op[t] = o
    /\ GotoR(t, l, rv, w, r)
    /\ UNCHANGED <<globals, took, gives>>

\* a step of task t, at position l0 of operation o, that touches nothing shared
Local(t, o, l0, l, rv, w) ==
    /\ pc[t] = l0
    /\ op[t] = o
    /\ Goto(t, l, rv, w)
    /\ UNCHANGED <<globals, took, gives>>

\* xSemaphoreTake( xWiFiSemaphoreHandle, xSemaphoreWaitTicks ) of operation o:
\* it succeeds when the semaphore is available, and fails after
\* xSemaphoreWaitTicks when it is not; l, rv and r are the position, xRetVal
\* and lRetVal after a successful take and the checks of the arguments that
\* follow it
xSemaphoreTakeR(t, o, l, rv, r) ==
    /\ pc[t] = "xSemaphoreTake"
    /\ op[t] = o
    /\ \/ /\ uxMessagesWaiting = 1
          /\ uxMessagesWaiting' = 0
          /\ took' = [took EXCEPT ![t] = TRUE]
          /\ GotoR(t, l, rv, FALSE, r)
       \/ /\ uxMessagesWaiting = 0
          /\ UNCHANGED <<uxMessagesWaiting, took>>
          /\ Goto(t, "idle", eWiFiTimeout, FALSE)
    /\ UNCHANGED <<xWIFIInitDone, xWiFiSemaphoreHandle, g_ulStatus, nCreate,
                   slTaskCreated, gives>>

\* faulty variant of xSemaphoreTake's caller: a failed take reported as
\* eWiFiFailure
xSemaphoreTake_TimeoutAsFailure(t, o, l, rv) ==
    /\ pc[t] = "xSemaphoreTake"
    /\ op[t] = o
    /\ \/ /\ uxMessagesWaiting = 1
          /\ uxMessagesWaiting' = 0
          /\ took' = [took EXCEPT ![t] = TRUE]
          /\ Goto(t, l, rv, FALSE)
       \/ /\ uxMessagesWaiting = 0
          /\ UNCHANGED <<uxMessagesWaiting, took>>
          /\ Goto(t, "idle", eWiFiFailure, FALSE)
    /\ UNCHANGED <<xWIFIInitDone, xWiFiSemaphoreHandle, g_ulStatus, nCreate,
                   slTaskCreated, gives>>

\* xSemaphoreTake of an operation that assigns nothing to lRetVal after it
xSemaphoreTake(t, o, l, rv) == xSemaphoreTakeR(t, o, l, rv, lRetVal[t])

\* xSemaphoreGive( xWiFiSemaphoreHandle ) at the end of a guarded section,
\* followed by the return of the operation
xSemaphoreGive(t) ==
    /\ pc[t] = "xSemaphoreGive"
    /\ uxMessagesWaiting' = 1
    /\ gives' = [gives EXCEPT ![t] = @ + 1]
    /\ Goto(t, "idle", xRetVal[t], FALSE)
    /\ UNCHANGED <<xWIFIInitDone, xWiFiSemaphoreHandle, g_ulStatus, nCreate,
                   slTaskCreated, took>>

(* ---------------- WIFI_On ---------------- *)
\* xSemaphoreCreateBinaryStatic on a non-NULL static buffer returns that buffer
CreateResults == {"xSemaphoreBuffer"}
\* pthread_create: 0 on success
PthreadResults == {0, -1}

\* entry of WIFI_On up to the test of xWIFIInitDone
WIFI_On(t) ==
    /\ \/ xWIFIInitDone
       \/ nCreate + Cardinality({u \in Tasks : pc[u] = "xSemaphoreCreateBinaryStatic"})
             < MaxCreate
    /\ Call(t, "WIFI_On", NoArg,
            IF xWIFIInitDone = FALSE THEN "xSemaphoreCreateBinaryStatic" ELSE "sl_Start",
            eWiFiFailure)

\* xWiFiSemaphoreHandle = xSemaphoreCreateBinaryStatic( &xSemaphoreBuffer ):
\* the queue in the static buffer is initialised empty
WIFI_On_Create(t) ==
    /\ pc[t] = "xSemaphoreCreateBinaryStatic"
    /\ op[t] = "WIFI_On"
    /\ \E h \in CreateResults :
          /\ xWiFiSemaphoreHandle' = h
          /\ Goto(t, IF h # "NULL" THEN "xSemaphoreGive_Init" ELSE "sl_Start",
                  xRetVal[t], FALSE)
    /\ uxMessagesWaiting' = 0
    /\ nCreate' = nCreate + 1
    /\ UNCHANGED <<xWIFIInitDone, g_ulStatus, slTaskCreated, took, gives>>

\* the initial xSemaphoreGive( xWiFiSemaphoreHandle )
WIFI_On_Give(t) ==
    /\ pc[t] = "xSemaphoreGive_Init"
    /\ op[t] = "WIFI_On"
    /\ uxMessagesWaiting' = 1
    /\ Goto(t, "prvCreateSLTask", xRetVal[t], FALSE)
    /\ UNCHANGED <<xWIFIInitDone, xWiFiSemaphoreHandle, g_ulStatus, nCreate,
                   slTaskCreated, took, gives>>

\* xRetVal = prvCreateSLTask(); if( xRetVal == 0 ) xWIFIInitDone = pdTRUE;
\* then WIFI_On enters prvResetNetworkCPU, whose first statement is sl_Start
prvCreateSLTask(t) ==
    /\ pc[t] = "prvCreateSLTask"
    /\ op[t] = "WIFI_On"
    /\ \E lRetc \in PthreadResults :
          /\ xWIFIInitDone' = IF lRetc = 0 THEN TRUE ELSE xWIFIInitDone
          /\ slTaskCreated' = IF lRetc = 0 THEN TRUE ELSE slTaskCreated
          /\ Goto(t, "sl_Start", IF lRetc = 0 THEN eWiFiSuccess ELSE eWiFiFailure, FALSE)
    /\ UNCHANGED <<xWiFiSemaphoreHandle, uxMessagesWaiting, g_ulStatus, nCreate,
                   took, gives>>

\* prvResetNetworkCPU: return of sl_Start( 0, 0, 0 )
prvResetNetworkCPU_Start(t) ==
    \E sRetc \in SlStartResults :
        IF sRetc < 0
        THEN Local(t, "WIFI_On", "sl_Start", "idle", eWiFiFailure, FALSE)
        ELSE Local(t, "WIFI_On", "sl_Start", "sl_Stop", eWiFiSuccess, FALSE)

\* prvResetNetworkCPU: return of sl_Stop( SL_STOP_TIMEOUT ), and the test of
\* prvResetNetworkCPU's result in WIFI_On
prvResetNetworkCPU_Stop(t) ==
    \E sRetc \in Int16Results :
        IF sRetc # 0
        THEN Local(t, "WIFI_On", "sl_Stop", "idle", eWiFiFailure, FALSE)
        ELSE Local(t, "WIFI_On", "sl_Stop", "Network_IF_ResetMCUStateMachine",
                   eWiFiSuccess, FALSE)

WIFI_On_ResetMCU(t) ==
    Local(t, "WIFI_On", "Network_IF_ResetMCUStateMachine", "Network_IF_InitDriver",
          xRetVal[t], FALSE)

\* return of Network_IF_InitDriver( eWiFiModeStation ): WIFI_On does not look
\* at the value returned, which the model keeps until the return statement
WIFI_On_InitDriver(t) ==
    \E lResult \in Int16Results :
        LocalR(t, "WIFI_On", "Network_IF_InitDriver", "return", xRetVal[t], FALSE,
               lResult)

\* return xRetVal
WIFI_On_Return(t) ==
    Local(t, "WIFI_On", "return", "idle", xRetVal[t], FALSE)

(* ---------------- WIFI_Off ---------------- *)
WIFI_Off(t) ==
    Call(t, "WIFI_Off", NoArg, "Network_IF_DisconnectFromAP", eWiFiFailure)

WIFI_Off_Disconnect(t) ==
    Local(t, "WIFI_Off", "Network_IF_DisconnectFromAP", "sl_Stop", xRetVal[t], FALSE)

WIFI_Off_Stop(t) ==
    \E sRetCode \in Int16Results :
        IF sRetCode = 0
        THEN Local(t, "WIFI_Off", "sl_Stop", "Network_IF_ResetMCUStateMachine",
                   xRetVal[t], FALSE)
        ELSE Local(t, "WIFI_Off", "sl_Stop", "idle", xRetVal[t], FALSE)

\* faulty variant: WIFI_Off resets the initialisation flag
WIFI_Off_ResetMCU_ClearsInitDone(t) ==
    /\ pc[t] = "Network_IF_ResetMCUStateMachine"
    /\ op[t] = "WIFI_Off"
    /\ xWIFIInitDone' = FALSE
    /\ Goto(t, "idle", eWiFiSuccess, FALSE)
    /\ UNCHANGED <<xWiFiSemaphoreHandle, uxMessagesWaiting, g_ulStatus, nCreate,
                   slTaskCreated, took, gives>>

WIFI_Off_ResetMCU(t) ==
    Local(t, "WIFI_Off", "Network_IF_ResetMCUStateMachine", "idle", eWiFiSuccess, FALSE)

(* ---------------- WIFI_ConnectAP ---------------- *)
\* The guarded operations dereference xWiFiSemaphoreHandle: callers invoke
\* them once a WIFI_On has stored a handle (with a NULL handle
\* xSemaphoreTake stops in its configASSERT).
WIFI_ConnectAP(t) ==
    /\ xWiFiSemaphoreHandle # "NULL"
    /\ \E l \in SSIDLenInputs, s \in SecInputs :
          Call(t, "WIFI_ConnectAP", [NoArg EXCEPT !.ssidLen = l, !.sec = s],
               "xSemaphoreTake", eWiFiSuccess)

\* lRetVal is wifiGENERAL_INTERNAL_ERROR when the SSID is too long or the
\* security type has no TI counterpart
WIFI_ConnectAP_Take(t) ==
    IF /\ arg[t].ssidLen <= wificonfigMAX_SSID_LEN
       /\ prvConvertSecurityAbstractedToTI(arg[t].sec) # wificonfigSEC_TYPE_UNKNOWN
    THEN xSemaphoreTake(t, "WIFI_ConnectAP", "Network_IF_ConnectAP", eWiFiSuccess)
    ELSE xSemaphoreTakeR(t, "WIFI_ConnectAP", "xSemaphoreGive", eWiFiFailure,
                         wifiGENERAL_INTERNAL_ERROR)

\* faulty variant: only a negative result of Network_IF_ConnectAP is a failure
WIFI_ConnectAP_Connect_NegativeOnly(t) ==
    \E lResult \in Int16Results :
        LocalR(t, "WIFI_ConnectAP", "Network_IF_ConnectAP", "xSemaphoreGive",
               IF lResult < 0 THEN eWiFiFailure ELSE xRetVal[t], FALSE, lResult)

\* lRetVal = Network_IF_ConnectAP( pcSsidCopy, xSecurityParams )
WIFI_ConnectAP_Connect(t) ==
    \E lResult \in Int16Results :
        LocalR(t, "WIFI_ConnectAP", "Network_IF_ConnectAP", "xSemaphoreGive",
               IF lResult # 0 THEN eWiFiFailure ELSE xRetVal[t], FALSE, lResult)

(* ---------------- WIFI_Disconnect ---------------- *)
WIFI_Disconnect(t) ==
    /\ xWiFiSemaphoreHandle # "NULL"
    /\ Call(t, "WIFI_Disconnect", NoArg, "xSemaphoreTake", eWiFiSuccess)

WIFI_Disconnect_Take(t) ==
    xSemaphoreTake(t, "WIFI_Disconnect", "Network_IF_DisconnectFromAP", eWiFiSuccess)

\* the result of Network_IF_DisconnectFromAP only selects the message printed
WIFI_Disconnect_Disconnect(t) ==
    Local(t, "WIFI_Disconnect", "Network_IF_DisconnectFromAP", "xSemaphoreGive",
          xRetVal[t], FALSE)

(* ---------------- WIFI_Reset ---------------- *)
WIFI_Reset(t) ==
    /\ xWiFiSemaphoreHandle # "NULL"
    /\ Call(t, "WIFI_Reset", NoArg, "xSemaphoreTake", eWiFiSuccess)

WIFI_Reset_Take(t) ==
    xSemaphoreTake(t, "WIFI_Reset", "Network_IF_ResetMCUStateMachine", eWiFiSuccess)

\* faulty variant: WIFI_Reset restarts the driver without stopping it
WIFI_Reset_ResetMCU_NoDeInit(t) ==
    Local(t, "WIFI_Reset", "Network_IF_ResetMCUStateMachine", "Network_IF_InitDriver",
          xRetVal[t], FALSE)

WIFI_Reset_ResetMCU(t) ==
    Local(t, "WIFI_Reset", "Network_IF_ResetMCUStateMachine", "Network_IF_DeInitDriver",
          xRetVal[t], FALSE)

WIFI_Reset_DeInitDriver(t) ==
    Local(t, "WIFI_Reset", "Network_IF_DeInitDriver", "Network_IF_InitDriver",
          xRetVal[t], FALSE)

WIFI_Reset_InitDriver(t) ==
    \E lResult \in Int16Results :
        Local(t, "WIFI_Reset", "Network_IF_InitDriver", "xSemaphoreGive",
              IF lResult # 0 THEN eWiFiFailure ELSE xRetVal[t], FALSE)

(* ---------------- WIFI_SetMode ---------------- *)
\* a mode without TI role returns eWiFiFailure before touching the semaphore
WIFI_SetMode_Reserved(t) ==
    \E m \in ModeInputs :
        /\ prvConvertRoleAbstractedToTI(m) = ROLE_RESERVED
        /\ Call(t, "WIFI_SetMode", [NoArg EXCEPT !.mode = m], "idle", eWiFiFailure)

WIFI_SetMode(t) ==
    /\ xWiFiSemaphoreHandle # "NULL"
    /\ \E m \in ModeInputs :
          /\ prvConvertRoleAbstractedToTI(m) # ROLE_RESERVED
          /\ Call(t, "WIFI_SetMode", [NoArg EXCEPT !.mode = m], "xSemaphoreTake",
                  eWiFiSuccess)

WIFI_SetMode_Take(t) ==
    xSemaphoreTake(t, "WIFI_SetMode", "sl_WlanSetMode", eWiFiSuccess)

WIFI_SetMode_SetMode(t) ==
    Local(t, "WIFI_SetMode", "sl_WlanSetMode", "sl_Stop", xRetVal[t], FALSE)

WIFI_SetMode_Stop(t) ==
    Local(t, "WIFI_SetMode", "sl_Stop", "sl_Start", xRetVal[t], FALSE)

\* return of sl_Start: the role the device came up in, compared with the
\* requested one; role AP then waits for the IP address
WIFI_SetMode_Start(t) ==
    \E lResult \in SlStartResults :
        LET lDeviceMode == prvConvertRoleAbstractedToTI(arg[t].mode) IN
        IF lResult # lDeviceMode
        THEN Local(t, "WIFI_SetMode", "sl_Start", "xSemaphoreGive", eWiFiFailure, FALSE)
        ELSE IF lResult = ROLE_AP
             THEN Local(t, "WIFI_SetMode", "sl_Start", "while_IS_IP_ACQUIRED",
                        xRetVal[t], FALSE)
             ELSE Local(t, "WIFI_SetMode", "sl_Start", "xSemaphoreGive",
                        xRetVal[t], FALSE)

\* while( !IS_IP_ACQUIRED( g_ulStatus ) ) usleep( 1000 ): the loop is left
\* when the bit is seen set; an iteration that sees it clear changes nothing
WIFI_SetMode_Wait(t) ==
    /\ g_ulStatus
    /\ Local(t, "WIFI_SetMode", "while_IS_IP_ACQUIRED", "xSemaphoreGive",
             xRetVal[t], FALSE)

\* g_ulStatus is extern volatile: the SimpleLink event handlers, which run
\* in the SimpleLink task, set and clear its IP-acquired bit asynchronously
SimpleLinkEvent ==
    /\ slTaskCreated
    /\ g_ulStatus' = ~g_ulStatus
    /\ UNCHANGED <<xWIFIInitDone, xWiFiSemaphoreHandle, uxMessagesWaiting, nCreate,
                   slTaskCreated, locals, cv>>

(* ---------------- WIFI_GetMode ---------------- *)
WIFI_GetMode(t) ==
    /\ xWiFiSemaphoreHandle # "NULL"
    /\ Call(t, "WIFI_GetMode", NoArg, "xSemaphoreTake", eWiFiFailure)

WIFI_GetMode_Take(t) ==
    xSemaphoreTake(t, "WIFI_GetMode", "sl_WlanGet", eWiFiFailure)

\* *pxDeviceMode is written with the translation of the role sl_WlanGet left
\* in xWlanConnectInfo.Mode
WIFI_GetMode_Get(t) ==
    \E Mode \in RoleValues :
        Local(t, "WIFI_GetMode", "sl_WlanGet", "xSemaphoreGive",
              IF prvConvertRoleTypeTIToAbstracted(Mode) = eWiFiModeNotSupported
              THEN eWiFiFailure ELSE eWiFiSuccess, TRUE)

(* ---------------- WIFI_NetworkAdd / Get / Delete ---------------- *)
WIFI_NetworkAdd(t) ==
    /\ xWiFiSemaphoreHandle # "NULL"
    /\ \E s \in SecInputs :
          Call(t, "WIFI_NetworkAdd", [NoArg EXCEPT !.sec = s], "xSemaphoreTake",
               eWiFiFailure)

WIFI_NetworkAdd_Take(t) ==
    IF prvConvertSecurityAbstractedToTI(arg[t].sec) # wificonfigSEC_TYPE_UNKNOWN
    THEN xSemaphoreTake(t, "WIFI_NetworkAdd", "sl_WlanProfileAdd", eWiFiFailure)
    ELSE xSemaphoreTake(t, "WIFI_NetworkAdd", "xSemaphoreGive", eWiFiFailure)

\* a result >= 0 is the index of the stored profile, written to *pusIndex
WIFI_NetworkAdd_Add(t) ==
    \E sRetcode \in Int16Results :
        IF sRetcode < 0
        THEN Local(t, "WIFI_NetworkAdd", "sl_WlanProfileAdd", "xSemaphoreGive",
                   eWiFiFailure, FALSE)
        ELSE Local(t, "WIFI_NetworkAdd", "sl_WlanProfileAdd", "xSemaphoreGive",
                   eWiFiSuccess, TRUE)

WIFI_NetworkGet(t) ==
    /\ xWiFiSemaphoreHandle # "NULL"
    /\ Call(t, "WIFI_NetworkGet", NoArg, "xSemaphoreTake", eWiFiFailure)

WIFI_NetworkGet_Take(t) ==
    xSemaphoreTake(t, "WIFI_NetworkGet", "sl_WlanProfileGet", eWiFiFailure)

\* sl_WlanProfileGet is handed pxNetworkProfile->cSSID and ->ucBSSID
WIFI_NetworkGet_Get(t) ==
    \E sRetCode \in Int16Results :
        Local(t, "WIFI_NetworkGet", "sl_WlanProfileGet", "xSemaphoreGive",
              IF sRetCode < 0 THEN eWiFiFailure ELSE eWiFiSuccess, TRUE)

WIFI_NetworkDelete(t) ==
    /\ xWiFiSemaphoreHandle # "NULL"
    /\ Call(t, "WIFI_NetworkDelete", NoArg, "xSemaphoreTake", eWiFiFailure)

WIFI_NetworkDelete_Take(t) ==
    xSemaphoreTake(t, "WIFI_NetworkDelete", "sl_WlanProfileDel", eWiFiFailure)

WIFI_NetworkDelete_Del(t) ==
    \E sRetCode \in Int16Results :
        Local(t, "WIFI_NetworkDelete", "sl_WlanProfileDel", "xSemaphoreGive",
              IF sRetCode # 0 THEN eWiFiFailure ELSE eWiFiSuccess, FALSE)

(* ---------------- operations that are not supported ---------------- *)
WIFI_Ping(t) ==
    \E o \in {"WIFI_Ping", "WIFI_StartAP", "WIFI_StopAP",
               "WIFI_RegisterNetworkStateChangeEventCallback"} :
        Call(t, o, NoArg, "idle", eWiFiNotSupported)

(* ---------------- WIFI_GetIP / GetMAC / GetHostIP / IsConnected ---------------- *)
WIFI_GetIP(t) ==
    Call(t, "WIFI_GetIP", NoArg, "Network_IF_IpConfigGet", eWiFiSuccess)

WIFI_GetIP_Get(t) ==
    \E sRetCode \in Int16Results :
        IF sRetCode # 0
        THEN Local(t, "WIFI_GetIP", "Network_IF_IpConfigGet", "idle", eWiFiFailure, FALSE)
        ELSE Local(t, "WIFI_GetIP", "Network_IF_IpConfigGet", "idle", xRetVal[t], TRUE)

WIFI_GetMAC(t) ==
    Call(t, "WIFI_GetMAC", NoArg, "sl_NetCfgGet", eWiFiSuccess)

WIFI_GetMAC_Get(t) ==
    \E sRetCode \in Int16Results :
        IF sRetCode # 0
        THEN Local(t, "WIFI_GetMAC", "sl_NetCfgGet", "idle", eWiFiFailure, FALSE)
        ELSE Local(t, "WIFI_GetMAC", "sl_NetCfgGet", "idle", xRetVal[t], TRUE)

WIFI_GetHostIP(t) ==
    Call(t, "WIFI_GetHostIP", NoArg, "SOCKETS_GetHostByName", eWiFiSuccess)

WIFI_GetHostIP_Get(t) ==
    \E ulDestinationIP \in {0, 1} :
        IF ulDestinationIP = 0
        THEN Local(t, "WIFI_GetHostIP", "SOCKETS_GetHostByName", "idle", eWiFiFailure, FALSE)
        ELSE Local(t, "WIFI_GetHostIP", "SOCKETS_GetHostByName", "idle", xRetVal[t], TRUE)

WIFI_IsConnected(t) ==
    Call(t, "WIFI_IsConnected", NoArg, "Network_IF_CurrentMCUState", pdFALSE)

WIFI_IsConnected_State(t) ==
    \E connected \in BOOLEAN :
        Local(t, "WIFI_IsConnected", "Network_IF_CurrentMCUState", "idle",
              IF connected THEN pdTRUE ELSE pdFALSE, FALSE)

(* ---------------- WIFI_Scan ---------------- *)
\* ucNumNetworks >= 1
WIFI_Scan(t) ==
    /\ xWiFiSemaphoreHandle # "NULL"
    /\ Call(t, "WIFI_Scan", NoArg, "xSemaphoreTake", eWiFiFailure)

WIFI_Scan_Take(t) ==
    xSemaphoreTake(t, "WIFI_Scan", "sl_WlanPolicySet_Scan", eWiFiFailure)

\* prvStartScan: return of sl_WlanPolicySet( SL_WLAN_POLICY_SCAN, ... ); on
\* success vTaskDelay and then prvStopScan
prvStartScan(t) ==
    \E sRetc \in Int16Results :
        IF sRetc = 0
        THEN Local(t, "WIFI_Scan", "sl_WlanPolicySet_Scan", "sl_WlanPolicySet_Disable",
                   eWiFiSuccess, FALSE)
        ELSE Local(t, "WIFI_Scan", "sl_WlanPolicySet_Scan", "xSemaphoreGive",
                   eWiFiFailure, FALSE)

\* prvStopScan: return of sl_WlanPolicySet( ..., SL_WLAN_DISABLE_SCAN, ... );
\* on success pvPortMalloc of the entries, which may return NULL
prvStopScan(t) ==
    \E sRetc \in Int16Results, pxNetEntries \in {"NULL", "entries"} :
        IF sRetc = 0 /\ pxNetEntries # "NULL"
        THEN Local(t, "WIFI_Scan", "sl_WlanPolicySet_Disable", "sl_WlanGetNetworkList",
                   eWiFiSuccess, FALSE)
        ELSE Local(t, "WIFI_Scan", "sl_WlanPolicySet_Disable", "xSemaphoreGive",
                   eWiFiFailure, FALSE)

\* the scan results are copied to pxBuffer
WIFI_Scan_GetNetworkList(t) ==
    Local(t, "WIFI_Scan", "sl_WlanGetNetworkList", "xSemaphoreGive", xRetVal[t], TRUE)

(* ---------------- WIFI_ConfigureAP ---------------- *)
WIFI_ConfigureAP(t) ==
    /\ xWiFiSemaphoreHandle # "NULL"
    /\ \E l \in SSIDLenInputs, s \in SecInputs, k \in PassLenInputs :
          Call(t, "WIFI_ConfigureAP",
               [NoArg EXCEPT !.ssidLen = l, !.sec = s, !.passLen = k],
               "xSemaphoreTake", eWiFiFailure)

\* sRetCode of WIFI_ConfigureAP is the model's lRetVal
WIFI_ConfigureAP_Take(t) ==
    IF arg[t].ssidLen > wificonfigMAX_SSID_LEN
    THEN xSemaphoreTakeR(t, "WIFI_ConfigureAP", "xSemaphoreGive", eWiFiFailure,
                         wifiGENERAL_INTERNAL_ERROR)
    ELSE xSemaphoreTake(t, "WIFI_ConfigureAP", "sl_WlanSet_SSID", eWiFiSuccess)

WIFI_ConfigureAP_SSID(t) ==
    \E sRetCode \in Int16Results :
        IF sRetCode # 0
        THEN LocalR(t, "WIFI_ConfigureAP", "sl_WlanSet_SSID", "xSemaphoreGive",
                    eWiFiFailure, FALSE, sRetCode)
        ELSE LocalR(t, "WIFI_ConfigureAP", "sl_WlanSet_SSID", "sl_WlanSet_CHANNEL",
                    xRetVal[t], FALSE, sRetCode)

\* faulty variant: the security type is set although the channel was refused
WIFI_ConfigureAP_Channel_GoesOn(t) ==
    \E sRetCode \in Int16Results :
        LocalR(t, "WIFI_ConfigureAP", "sl_WlanSet_CHANNEL", "sl_WlanSet_SECURITY_TYPE",
               IF sRetCode # 0 THEN eWiFiFailure ELSE xRetVal[t], FALSE, sRetCode)

WIFI_ConfigureAP_Channel(t) ==
    \E sRetCode \in Int16Results :
        IF sRetCode # 0
        THEN LocalR(t, "WIFI_ConfigureAP", "sl_WlanSet_CHANNEL", "xSemaphoreGive",
                    eWiFiFailure, FALSE, sRetCode)
        ELSE LocalR(t, "WIFI_ConfigureAP", "sl_WlanSet_CHANNEL",
                    "sl_WlanSet_SECURITY_TYPE", xRetVal[t], FALSE, sRetCode)

\* after the security type: the password, unless the network is open or the
\* password is too long
WIFI_ConfigureAP_SecurityType(t) ==
    \E sRetCode \in Int16Results :
        IF sRetCode # 0
        THEN LocalR(t, "WIFI_ConfigureAP", "sl_WlanSet_SECURITY_TYPE", "xSemaphoreGive",
                    eWiFiFailure, FALSE, sRetCode)
        ELSE IF arg[t].sec = eWiFiSecurityOpen
             THEN LocalR(t, "WIFI_ConfigureAP", "sl_WlanSet_SECURITY_TYPE",
                         "xSemaphoreGive", xRetVal[t], FALSE, sRetCode)
             ELSE IF arg[t].passLen > wificonfigMAX_PASSPHRASE_LEN
                  THEN LocalR(t, "WIFI_ConfigureAP", "sl_WlanSet_SECURITY_TYPE",
                              "xSemaphoreGive", eWiFiFailure, FALSE,
                              wifiGENERAL_INTERNAL_ERROR)
                  ELSE LocalR(t, "WIFI_ConfigureAP", "sl_WlanSet_SECURITY_TYPE",
                              "sl_WlanSet_PASSWORD", xRetVal[t], FALSE, sRetCode)

WIFI_ConfigureAP_Password(t) ==
    \E sRetCode \in Int16Results :
        LocalR(t, "WIFI_ConfigureAP", "sl_WlanSet_PASSWORD", "xSemaphoreGive",
               IF sRetCode # 0 THEN eWiFiFailure ELSE xRetVal[t], FALSE, sRetCode)

(* ---------------- WIFI_SetPMMode / WIFI_GetPMMode ---------------- *)
WIFI_SetPMMode(t) ==
    /\ xWiFiSemaphoreHandle # "NULL"
    /\ \E m \in PMInputs :
          Call(t, "WIFI_SetPMMode", [NoArg EXCEPT !.pm = m], "xSemaphoreTake",
               eWiFiSuccess)

\* the default case of the switch makes no call and leaves sRetCode = 0
WIFI_SetPMMode_Take(t) ==
    IF arg[t].pm \in {eWiFiPMNormal, eWiFiPMLowPower, eWiFiPMAlwaysOn}
    THEN xSemaphoreTake(t, "WIFI_SetPMMode", "sl_WlanPolicySet_PM", eWiFiSuccess)
    ELSE xSemaphoreTake(t, "WIFI_SetPMMode", "xSemaphoreGive", eWiFiNotSupported)

WIFI_SetPMMode_Set(t) ==
    \E sRetCode \in Int16Results :
        Local(t, "WIFI_SetPMMode", "sl_WlanPolicySet_PM", "xSemaphoreGive",
              IF sRetCode # 0 THEN eWiFiFailure ELSE xRetVal[t], FALSE)

WIFI_GetPMMode(t) ==
    /\ xWiFiSemaphoreHandle # "NULL"
    /\ Call(t, "WIFI_GetPMMode", NoArg, "xSemaphoreTake", eWiFiSuccess)

WIFI_GetPMMode_Take(t) ==
    xSemaphoreTake(t, "WIFI_GetPMMode", "sl_WlanPolicyGet", eWiFiSuccess)

WIFI_GetPMMode_Get(t) ==
    \E sRetCode \in Int16Results :
        IF sRetCode # 0
        THEN Local(t, "WIFI_GetPMMode", "sl_WlanPolicyGet", "xSemaphoreGive",
                   eWiFiFailure, FALSE)
        ELSE Local(t, "WIFI_GetPMMode", "sl_WlanPolicyGet", "xSemaphoreGive",
                   xRetVal[t], TRUE)

(* ---------------- the adapter ---------------- *)
TaskStep(t) ==
    \/ WIFI_On(t) \/ WIFI_On_Create(t) \/ WIFI_On_Give(t) \/ prvCreateSLTask(t)
    \/ prvResetNetworkCPU_Start(t) \/ prvResetNetworkCPU_Stop(t)
    \/ WIFI_On_ResetMCU(t) \/ WIFI_On_InitDriver(t) \/ WIFI_On_Return(t)
    \/ WIFI_Off(t) \/ WIFI_Off_Disconnect(t) \/ WIFI_Off_Stop(t) \/ WIFI_Off_ResetMCU(t)
    \/ WIFI_ConnectAP(t) \/ WIFI_ConnectAP_Take(t) \/ WIFI_ConnectAP_Connect(t)
    \/ WIFI_Disconnect(t) \/ WIFI_Disconnect_Take(t) \/ WIFI_Disconnect_Disconnect(t)
    \/ WIFI_Reset(t) \/ WIFI_Reset_Take(t) \/ WIFI_Reset_ResetMCU(t)
    \/ WIFI_Reset_DeInitDriver(t) \/ WIFI_Reset_InitDriver(t)
    \/ WIFI_SetMode_Reserved(t) \/ WIFI_SetMode(t) \/ WIFI_SetMode_Take(t)
    \/ WIFI_SetMode_SetMode(t) \/ WIFI_SetMode_Stop(t) \/ WIFI_SetMode_Start(t)
    \/ WIFI_SetMode_Wait(t)
    \/ WIFI_GetMode(t) \/ WIFI_GetMode_Take(t) \/ WIFI_GetMode_Get(t)
    \/ WIFI_NetworkAdd(t) \/ WIFI_NetworkAdd_Take(t) \/ WIFI_NetworkAdd_Add(t)
    \/ WIFI_NetworkGet(t) \/ WIFI_NetworkGet_Take(t) \/ WIFI_NetworkGet_Get(t)
    \/ WIFI_NetworkDelete(t) \/ WIFI_NetworkDelete_Take(t) \/ WIFI_NetworkDelete_Del(t)
    \/ WIFI_Ping(t)
    \/ WIFI_GetIP(t) \/ WIFI_GetIP_Get(t)
    \/ WIFI_GetMAC(t) \/ WIFI_GetMAC_Get(t)
    \/ WIFI_GetHostIP(t) \/ WIFI_GetHostIP_Get(t)
    \/ WIFI_IsConnected(t) \/ WIFI_IsConnected_State(t)
    \/ WIFI_Scan(t) \/ WIFI_Scan_Take(t) \/ prvStartScan(t) \/ prvStopScan(t)
    \/ WIFI_Scan_GetNetworkList(t)
    \/ WIFI_ConfigureAP(t) \/ WIFI_ConfigureAP_Take(t) \/ WIFI_ConfigureAP_SSID(t)
    \/ WIFI_ConfigureAP_Channel(t) \/ WIFI_ConfigureAP_SecurityType(t)
    \/ WIFI_ConfigureAP_Password(t)
    \/ WIFI_SetPMMode(t) \/ WIFI_SetPMMode_Take(t) \/ WIFI_SetPMMode_Set(t)
    \/ WIFI_GetPMMode(t) \/ WIFI_GetPMMode_Take(t) \/ WIFI_GetPMMode_Get(t)
    \/ xSemaphoreGive(t)

Next ==
    \/ \E t \in Tasks : TaskStep(t)
    \/ SimpleLinkEvent

Spec == Init /\ [][Next]_vars

\* One task calling the operations one after the other, under fair
\* scheduling: a step of the task that is possible again and again is
\* eventually taken, which covers the return of every vendor SDK call and an
\* iteration of the wait loop of WIFI_SetMode that sees the bit set.  The
\* events of the network processor are not a matter of scheduling: none is
\* required to arrive.
LiveTasks == {"task1"}

LiveNext ==
    \/ \E t \in LiveTasks : TaskStep(t)
    \/ SimpleLinkEvent

LiveSpec == Init /\ [][LiveNext]_vars /\ \A t \in LiveTasks : SF_vars(TaskStep(t))

(* ---------------- the translations on their own ---------------- *)
\* Every uint8_t value is handed to the translations; the results are
\* translated again, up to MaxConv translations in a row.
ConvInit ==
    /\ xWIFIInitDone = FALSE
    /\ xWiFiSemaphoreHandle = "NULL"
    /\ uxMessagesWaiting = 0
    /\ g_ulStatus = FALSE
    /\ nCreate = 0
    /\ slTaskCreated = FALSE
    /\ pc = [t \in Tasks |-> "idle"]
    /\ op = [t \in Tasks |-> "none"]
    /\ arg = [t \in Tasks |-> NoArg]
    /\ xRetVal = [t \in Tasks |-> eWiFiSuccess]
    /\ sdkCalls = [t \in Tasks |-> 0]
    /\ took = [t \in Tasks |-> FALSE]
    /\ gives = [t \in Tasks |-> 0]
    /\ wrote = [t \in Tasks |-> FALSE]
    /\ lRetVal = [t \in Tasks |-> 0]
    /\ \E x \in Uint8 : cvVals = <<x>>
    /\ cvFns = <<>>

ConvLast == cvVals[Len(cvVals)]

ConvApply(fn, result) ==
    /\ Len(cvFns) < MaxConv
    /\ cvVals' = Append(cvVals, result)
    /\ cvFns' = Append(cvFns, fn)
    /\ UNCHANGED <<globals, locals>>

ConvSecurityAbstractedToTI ==
    ConvApply("prvConvertSecurityAbstractedToTI", prvConvertSecurityAbstractedToTI(ConvLast))

ConvSecurityTIToAbstracted ==
    ConvApply("prvConvertSecurityTIToAbstracted", prvConvertSecurityTIToAbstracted(ConvLast))

ConvRoleAbstractedToTI ==
    ConvApply("prvConvertRoleAbstractedToTI", prvConvertRoleAbstractedToTI(ConvLast))

ConvRoleTypeTIToAbstracted ==
    ConvApply("prvConvertRoleTypeTIToAbstracted", prvConvertRoleTypeTIToAbstracted(ConvLast))

ConvNext ==
    \/ ConvSecurityAbstractedToTI
    \/ ConvSecurityTIToAbstracted
    \/ ConvRoleAbstractedToTI
    \/ ConvRoleTypeTIToAbstracted

ConvSpec == ConvInit /\ [][ConvNext]_vars

(* ---------------- vocabulary of the properties ---------------- *)
\* task t is inside a vendor SDK call
InSdk(t) == pc[t] \in SdkPcs
\* task t is between a successful xSemaphoreTake and its xSemaphoreGive
InGuarded(t) == pc[t] # "idle" /\ took[t]
\* the step is taken by task t
Moved(t) ==
    <<pc[t], op[t], arg[t], xRetVal[t], sdkCalls[t], took[t], gives[t], wrote[t],
      lRetVal[t]>>' #
    <<pc[t], op[t], arg[t], xRetVal[t], sdkCalls[t], took[t], gives[t], wrote[t],
      lRetVal[t]>>
\* the step is the return of task t's operation to its caller
Returns(t) == Moved(t) /\ pc'[t] = "idle"
\* the operation a step of task t belongs to
StepOp(t) == IF pc[t] = "idle" THEN op'[t] ELSE op[t]
\* the step is the failure of task t's xSemaphoreTake
TakeFailed(t) == pc[t] = "xSemaphoreTake" /\ ~took'[t]

(* C1: all vendor SDK calls are serialized behind the Wi-Fi semaphore: a
   task inside an sl_* or Network_IF_* call holds the semaphore, and no two
   tasks are inside a vendor SDK call at the same time. *)
C1_SdkCallsSerialized ==
    /\ \A t \in Tasks : pc[t] \in SlPcs \cup NetworkIfPcs => InGuarded(t)
    /\ \A t, u \in Tasks : t # u => ~(InSdk(t) /\ InSdk(u))

(* C2: at most one task at a time is between a successful xSemaphoreTake
   and its matching xSemaphoreGive. *)
C2_MutualExclusion ==
    \A t, u \in Tasks : t # u => ~(InGuarded(t) /\ InGuarded(u))

(* C3: xSemaphoreCreateBinaryStatic (with the initial give that follows it)
   is executed at most once, whatever WIFI_On calls are made. *)
C3_CreatedOnce == nCreate <= 1

(* C4: only WIFI_On writes xWIFIInitDone and xWiFiSemaphoreHandle: a step of
   any other operation leaves both unchanged; once xWIFIInitDone is pdTRUE it
   stays pdTRUE, and a handle once stored is never lost. *)
C4_OnlyWIFIOnWrites ==
    [][ /\ \A t \in Tasks : (Moved(t) /\ StepOp(t) # "WIFI_On") =>
              UNCHANGED <<xWIFIInitDone, xWiFiSemaphoreHandle>>
        /\ xWIFIInitDone => xWIFIInitDone'
        /\ xWiFiSemaphoreHandle # "NULL" => xWiFiSemaphoreHandle' # "NULL" ]_vars

\* WIFI_Off and WIFI_Reset are at work after the one-time initialisation
C4_Witness ==
    /\ xWIFIInitDone
    /\ xWiFiSemaphoreHandle # "NULL"
    /\ \E t, u \in Tasks :
          /\ op[t] = "WIFI_Off" /\ pc[t] = "Network_IF_ResetMCUStateMachine"
          /\ op[u] = "WIFI_Reset" /\ pc[u] = "xSemaphoreGive"

(* C5 as stated: every invocation of a public operation makes exactly one
   vendor SDK call. *)
C5_ExactlyOneCall ==
    [][ \A t \in Tasks : Returns(t) => sdkCalls'[t] = 1 ]_vars

\* vendor SDK calls of an invocation of operation o that did not time out
SdkCallCounts(o) ==
    CASE o = "WIFI_On" -> {1, 2, 4}
      [] o = "WIFI_Off" -> {2, 3}
      [] o = "WIFI_Reset" -> {3}
      [] o = "WIFI_SetMode" -> {3}
      [] o = "WIFI_Scan" -> {1, 2, 3}
      [] o = "WIFI_ConfigureAP" -> {0, 1, 2, 3, 4}
      [] o \in {"WIFI_ConnectAP", "WIFI_NetworkAdd", "WIFI_SetPMMode"} -> {0, 1}
      [] o \in {"WIFI_Ping", "WIFI_StartAP", "WIFI_StopAP",
                "WIFI_RegisterNetworkStateChangeEventCallback"} -> {0}
      [] OTHER -> {1}

(* C5 amended: the operations forward to the vendor SDK, but not 1:1.  A
   guarded operation that does not get the semaphore (its take times out, or
   WIFI_SetMode is asked for an unsupported mode) makes no call; otherwise
   the number of calls is one of SdkCallCounts of the operation. *)
C5_CallCounts ==
    [][ \A t \in Tasks : Returns(t) =>
          IF StepOp(t) \in GuardedOps /\ ~took'[t]
          THEN sdkCalls'[t] = 0
          ELSE sdkCalls'[t] \in SdkCallCounts(StepOp(t)) ]_vars

\* an operation has returned after four vendor SDK calls, another after three
C5_Witness ==
    \E t, u \in Tasks :
        /\ pc[t] = "idle" /\ sdkCalls[t] = 4
        /\ pc[u] = "idle" /\ sdkCalls[u] = 3

(* ---------------- the translation claims (ConvSpec) ---------------- *)
SupportedSecurity == {eWiFiSecurityOpen, eWiFiSecurityWEP, eWiFiSecurityWPA,
                      eWiFiSecurityWPA2}
SecurityRoundTrip == <<"prvConvertSecurityAbstractedToTI", "prvConvertSecurityTIToAbstracted">>
RoleRoundTrip == <<"prvConvertRoleAbstractedToTI", "prvConvertRoleTypeTIToAbstracted">>
RoleReverseTrip == <<"prvConvertRoleTypeTIToAbstracted", "prvConvertRoleAbstractedToTI">>
\* the harness applied translation fn first
ConvFirst(fn) == Len(cvFns) >= 1 /\ cvFns[1] = fn

(* C6 as stated: translating any of Open, WEP, WPA, WPA2 to the TI type and
   back returns the type translated; any other abstracted value maps to
   wificonfigSEC_TYPE_UNKNOWN and any unrecognised vendor value to
   eWiFiSecurityNotSupported. *)
C6_SecurityRoundTrip ==
    /\ (cvFns = SecurityRoundTrip /\ cvVals[1] \in SupportedSecurity) =>
           cvVals[3] = cvVals[1]
    /\ (ConvFirst("prvConvertSecurityAbstractedToTI") /\ cvVals[1] \notin SupportedSecurity) =>
           cvVals[2] = wificonfigSEC_TYPE_UNKNOWN
    /\ (ConvFirst("prvConvertSecurityTIToAbstracted")
          /\ cvVals[1] \notin {SL_WLAN_SEC_TYPE_OPEN, SL_WLAN_SEC_TYPE_WEP,
                                SL_WLAN_SEC_TYPE_WPA_WPA2}) =>
           cvVals[2] = eWiFiSecurityNotSupported

(* C6 amended: the round trip returns the type translated for Open, WEP and
   WPA2 only; eWiFiSecurityWPA does not come back as eWiFiSecurityWPA (the
   WPA case of the reverse translation is commented out); any other
   abstracted value maps to wificonfigSEC_TYPE_UNKNOWN and any unrecognised
   vendor value to eWiFiSecurityNotSupported. *)
C6_SecurityRoundTripButWPA ==
    /\ (cvFns = SecurityRoundTrip
          /\ cvVals[1] \in {eWiFiSecurityOpen, eWiFiSecurityWEP, eWiFiSecurityWPA2}) =>
           cvVals[3] = cvVals[1]
    /\ (cvFns = SecurityRoundTrip /\ cvVals[1] = eWiFiSecurityWPA) =>
           cvVals[3] # eWiFiSecurityWPA
    /\ (ConvFirst("prvConvertSecurityAbstractedToTI") /\ cvVals[1] \notin SupportedSecurity) =>
           cvVals[2] = wificonfigSEC_TYPE_UNKNOWN
    /\ (ConvFirst("prvConvertSecurityTIToAbstracted")
          /\ cvVals[1] \notin {SL_WLAN_SEC_TYPE_OPEN, SL_WLAN_SEC_TYPE_WEP,
                                SL_WLAN_SEC_TYPE_WPA_WPA2}) =>
           cvVals[2] = eWiFiSecurityNotSupported

\* eWiFiSecurityWPA has made the round trip and come back as eWiFiSecurityWPA2
C6_Witness ==
    /\ cvFns = SecurityRoundTrip
    /\ cvVals[1] = eWiFiSecurityWPA
    /\ cvVals[3] = eWiFiSecurityWPA2

(* C7: the role translations are inverse to each other on the supported
   roles, in both directions; every other abstracted value maps to
   ROLE_RESERVED and every other vendor value to eWiFiModeNotSupported. *)
C7_RoleBijection ==
    /\ (cvFns = RoleRoundTrip
          /\ cvVals[1] \in {eWiFiModeStation, eWiFiModeAP, eWiFiModeP2P}) =>
           cvVals[3] = cvVals[1]
    /\ (cvFns = RoleReverseTrip /\ cvVals[1] \in {ROLE_STA, ROLE_AP, ROLE_P2P}) =>
           cvVals[3] = cvVals[1]
    /\ (ConvFirst("prvConvertRoleAbstractedToTI")
          /\ cvVals[1] \notin {eWiFiModeStation, eWiFiModeAP, eWiFiModeP2P}) =>
           cvVals[2] = ROLE_RESERVED
    /\ (ConvFirst("prvConvertRoleTypeTIToAbstracted")
          /\ cvVals[1] \notin {ROLE_STA, ROLE_AP, ROLE_P2P}) =>
           cvVals[2] = eWiFiModeNotSupported

\* eWiFiModeP2P has made the round trip through ROLE_P2P
C7_Witness ==
    /\ cvFns = RoleRoundTrip
    /\ cvVals[1] = eWiFiModeP2P
    /\ cvVals[2] = ROLE_P2P

(* ---------------- the semaphore claims (Spec) ---------------- *)
(* C8: a guarded operation returns eWiFiTimeout if and only if its
   xSemaphoreTake failed; it then has made no vendor SDK call, written no
   output parameter and not given the semaphore, whose count it leaves as
   it found it. *)
C8_TimeoutIffTakeFailed ==
    [][ \A t \in Tasks : (Returns(t) /\ StepOp(t) \in GuardedOps) =>
          /\ (xRetVal'[t] = eWiFiTimeout) <=> TakeFailed(t)
          /\ TakeFailed(t) => /\ sdkCalls'[t] = 0
                              /\ ~wrote'[t]
                              /\ gives'[t] = 0
                              /\ uxMessagesWaiting' = uxMessagesWaiting ]_vars

\* a task has timed out on the semaphore that another task still holds
C8_Witness ==
    \E t, u \in Tasks :
        /\ pc[t] = "idle" /\ xRetVal[t] = eWiFiTimeout /\ ~took[t]
        /\ InGuarded(u)
        /\ uxMessagesWaiting = 0

(* C9: a guarded operation gives the semaphore exactly once when it took it
   and never otherwise; hence, once the one-time initialisation of WIFI_On
   has succeeded, the semaphore is available whenever no task is inside a
   guarded section. *)
C9_SemaphoreBalance ==
    /\ \A t \in Tasks : gives[t] <= (IF took[t] THEN 1 ELSE 0)
    /\ \A t \in Tasks : (pc[t] = "idle" /\ took[t]) => gives[t] = 1
    /\ (xWIFIInitDone /\ \A t \in Tasks : ~InGuarded(t)) => uxMessagesWaiting = 1

(* C10: WIFI_On is inside sl_Start, sl_Stop or Network_IF_InitDriver only
   when prvCreateSLTask has succeeded, in this or an earlier WIFI_On. *)
C10_SLTaskBeforeSimpleLink ==
    \A t \in Tasks :
        (op[t] = "WIFI_On" /\ pc[t] \in {"sl_Start", "sl_Stop", "Network_IF_InitDriver"})
            => slTaskCreated

(* ---------------- the behaviour of single operations (Spec) ---------------- *)
(* C11: WIFI_On returns eWiFiSuccess only if every step of turning Wi-Fi on
   succeeded: the semaphore exists, the SimpleLink task was created
   (xWIFIInitDone = pdTRUE), sl_Start and sl_Stop succeeded so that all four
   vendor calls were made, and Network_IF_InitDriver returned 0. *)
C11_OnSuccessOnlyIfAllSucceeded ==
    \A t \in Tasks :
        (op[t] = "WIFI_On" /\ pc[t] = "return" /\ xRetVal[t] = eWiFiSuccess) =>
            /\ xWiFiSemaphoreHandle # "NULL"
            /\ xWIFIInitDone
            /\ sdkCalls[t] = 4
            /\ lRetVal[t] = 0

(* C12: under fair scheduling every invocation of a public operation
   eventually returns to its caller, and a task that took the semaphore
   eventually is outside its guarded section again; WIFI_SetMode included,
   for every mode and every value of g_ulStatus. *)
C12_EveryOperationReturns ==
    /\ \A t \in Tasks : (pc[t] # "idle") ~> (pc[t] = "idle")
    /\ \A t \in Tasks : InGuarded(t) ~> ~InGuarded(t)

\* the operations that translate a security type for the vendor SDK
SecurityOps == {"WIFI_ConnectAP", "WIFI_NetworkAdd", "WIFI_ConfigureAP"}
\* the vendor SDK calls that carry the translated security type
SecurityPcs == {"Network_IF_ConnectAP", "sl_WlanProfileAdd", "sl_WlanSet_SECURITY_TYPE"}

(* C13: wificonfigSEC_TYPE_UNKNOWN is never handed to the vendor SDK: when
   the security type of WIFI_ConnectAP, WIFI_NetworkAdd or WIFI_ConfigureAP
   translates to it, the task is never inside the call that carries the
   security type, and the operation, once it holds the semaphore, returns
   eWiFiFailure. *)
C13_NoUnknownSecurityToSdk ==
    \A t \in Tasks :
        (/\ op[t] \in SecurityOps
         /\ prvConvertSecurityAbstractedToTI(arg[t].sec) = wificonfigSEC_TYPE_UNKNOWN) =>
            /\ pc[t] \notin SecurityPcs
            /\ pc[t] = "xSemaphoreGive" => xRetVal[t] = eWiFiFailure

\* WIFI_ConnectAP of task t rejects its arguments before the vendor call
ConnectAPRejects(t) ==
    \/ arg[t].ssidLen > wificonfigMAX_SSID_LEN
    \/ prvConvertSecurityAbstractedToTI(arg[t].sec) = wificonfigSEC_TYPE_UNKNOWN

(* C14: WIFI_ConnectAP, once it holds the semaphore: with an SSID longer than
   wificonfigMAX_SSID_LEN or an unsupported security type it returns
   eWiFiFailure without calling Network_IF_ConnectAP; otherwise it calls
   Network_IF_ConnectAP exactly once and returns eWiFiSuccess if and only if
   that call returned 0.  In all three cases it gives the semaphore, once,
   before it returns. *)
C14_ConnectAP ==
    [][ \A t \in Tasks :
          /\ (op[t] = "WIFI_ConnectAP" /\ pc[t] = "Network_IF_ConnectAP") =>
                 /\ took[t]
                 /\ ~ConnectAPRejects(t)
                 /\ sdkCalls[t] = 1
          /\ (Returns(t) /\ op[t] = "WIFI_ConnectAP" /\ took[t]) =>
                 /\ ConnectAPRejects(t) =>
                        xRetVal'[t] = eWiFiFailure /\ sdkCalls'[t] = 0
                 /\ ~ConnectAPRejects(t) =>
                        /\ sdkCalls'[t] = 1
                        /\ xRetVal'[t] = (IF lRetVal[t] = 0 THEN eWiFiSuccess
                                                           ELSE eWiFiFailure)
                 /\ pc[t] = "xSemaphoreGive"
                 /\ gives'[t] = 1
                 /\ uxMessagesWaiting' = 1 ]_vars

\* WIFI_ConnectAP is about to give the semaphore after Network_IF_ConnectAP
\* returned a positive value
C14_Witness ==
    \E t \in Tasks :
        /\ op[t] = "WIFI_ConnectAP" /\ pc[t] = "xSemaphoreGive"
        /\ took[t] /\ sdkCalls[t] = 1
        /\ lRetVal[t] > 0
        /\ xRetVal[t] = eWiFiFailure

\* the steps of WIFI_ConfigureAP, in the order of the code
ConfigureAPSteps == <<"sl_WlanSet_SSID", "sl_WlanSet_CHANNEL",
                      "sl_WlanSet_SECURITY_TYPE", "sl_WlanSet_PASSWORD">>

(* C15: WIFI_ConfigureAP sets SSID, channel, security type and password in
   this order and stops at the first failing step: a step's sl_WlanSet is
   entered only from the step before it and only when that one returned 0;
   an SSID longer than wificonfigMAX_SSID_LEN or a password longer than
   wificonfigMAX_PASSPHRASE_LEN fails its step without a vendor call; the
   password step is skipped for eWiFiSecurityOpen; the operation stops
   before the last step only on a failure, and it returns eWiFiSuccess if
   and only if every attempted step returned 0. *)
C15_ConfigureAPOrder ==
    [][ \A t \in Tasks : (op[t] = "WIFI_ConfigureAP" /\ Moved(t)) =>
          /\ \A i \in 1..4 : pc'[t] = ConfigureAPSteps[i] =>
                 /\ pc[t] = (IF i = 1 THEN "xSemaphoreTake" ELSE ConfigureAPSteps[i - 1])
                 /\ lRetVal'[t] = 0
                 /\ xRetVal'[t] = eWiFiSuccess
                 /\ sdkCalls'[t] = i
          /\ pc'[t] = "sl_WlanSet_SSID" => arg[t].ssidLen <= wificonfigMAX_SSID_LEN
          /\ pc'[t] = "sl_WlanSet_PASSWORD" =>
                 /\ arg[t].sec # eWiFiSecurityOpen
                 /\ arg[t].passLen <= wificonfigMAX_PASSPHRASE_LEN
          /\ (pc[t] = "xSemaphoreTake" /\ pc'[t] = "xSemaphoreGive") =>
                 /\ arg[t].ssidLen > wificonfigMAX_SSID_LEN
                 /\ lRetVal'[t] # 0 /\ sdkCalls'[t] = 0
          /\ (pc[t] \in SlPcs /\ pc'[t] = "xSemaphoreGive" /\ lRetVal'[t] = 0) =>
                 \/ pc[t] = "sl_WlanSet_PASSWORD"
                 \/ pc[t] = "sl_WlanSet_SECURITY_TYPE" /\ arg[t].sec = eWiFiSecurityOpen
          /\ pc'[t] = "xSemaphoreGive" =>
                 xRetVal'[t] = (IF lRetVal'[t] = 0 THEN eWiFiSuccess ELSE eWiFiFailure)
          /\ (Returns(t) /\ took[t]) =>
                 /\ pc[t] = "xSemaphoreGive"
                 /\ xRetVal'[t] = xRetVal[t]
                 /\ sdkCalls'[t] = sdkCalls[t] ]_vars

\* WIFI_ConfigureAP is about to give the semaphore after all four settings
\* were accepted
C15_Witness ==
    \E t \in Tasks :
        /\ op[t] = "WIFI_ConfigureAP" /\ pc[t] = "xSemaphoreGive"
        /\ arg[t].sec # eWiFiSecurityOpen
        /\ sdkCalls[t] = 4
        /\ lRetVal[t] = 0
        /\ xRetVal[t] = eWiFiSuccess

====
